---- MODULE Spec2Model ----
(***************************************************************************)
(* Model of app.py (feoff01/comiss-es): the Flask front of the commission  *)
(* reconciliation engine.  The module holds the upload classifier, the     *)
(* object-store listing, the dashboard metrics and the processar request   *)
(* with its local and remote persistence.                                  *)
(*                                                                         *)
(* Strings are TLA+ strings; TLC evaluates Len, SubSeq and \o on them, so  *)
(* file names, keywords, timestamps and object paths are the real texts.   *)
(***************************************************************************)
EXTENDS Integers, Sequences, FiniteSets, TLC

VARIABLES
    uploaded_files,   \* classificar_arquivos: the argument (a list of files)
    classificado,     \* classificar_arquivos: <<>> before the call, <<[slots, faltando]>> after
    vercel,           \* os.getenv("VERCEL") is set
    supabase,         \* the module-level client: TRUE when created, FALSE when None
    relogio,          \* the wall clock, in ticks since HORA_INICIAL
    pedidos,          \* the /processar requests: locals and position of each
    bucket,           \* the object store: path |-> what is stored there
    outputs,          \* the files under OUTPUT_DIR: path |-> what the file holds
    listagem,         \* escolher_mais_recente_df_final: <<>> before the call, <<result>> after
    painel            \* the tables and the context of one request that renders the dashboard

varsClassificar == <<uploaded_files, classificado>>
\* what /processar leaves alone
varsListar == <<listagem>>
varsPainel == <<painel>>
varsOutros == <<uploaded_files, classificado, listagem, painel>>
varsProcessar == <<vercel, supabase, relogio, pedidos, bucket, outputs>>
vars == <<uploaded_files, classificado, vercel, supabase, relogio, pedidos, bucket, outputs,
          listagem, painel>>

(***************************************************************************)
(* Text helpers                                                            *)
(***************************************************************************)

\* s[i] as a one-character string
Ch(s, i) == SubSeq(s, i, i)

\* Python's  k in s  for strings
Contem(s, k) ==
    \E i \in 1..(Len(s) - Len(k) + 1) : SubSeq(s, i, i + Len(k) - 1) = k

MAIUSCULAS == "ABCDEFGHIJKLMNOPQRSTUVWXYZÂÇÉ"
MINUSCULAS == "abcdefghijklmnopqrstuvwxyzâçé"

\* the lower-case letter of every upper-case letter
LowerTab ==
    [c \in {Ch(MAIUSCULAS, i) : i \in 1..Len(MAIUSCULAS)} |->
        Ch(MINUSCULAS, CHOOSE i \in 1..Len(MAIUSCULAS) : Ch(MAIUSCULAS, i) = c)]

\* str.lower() of one character
LowerCh(c) == IF c \in DOMAIN LowerTab THEN LowerTab[c] ELSE c

RECURSIVE Lower(_)
\* str.lower()
Lower(s) == IF s = "" THEN "" ELSE LowerCh(Ch(s, 1)) \o Lower(SubSeq(s, 2, Len(s)))

(***************************************************************************)
(* classificar_arquivos                                                    *)
(***************************************************************************)

\* a slot holding no file
None == 0

\* no branch of the if/elif chain taken
SemChave == ""

\* the keys of the slots dict, in insertion order
SLOTS == <<"pj1", "seg", "cam", "co_ter", "co_xpvp", "cre", "xpcs",
           "lan_man", "tim_rep", "lan_pro">>

SlotKeys == {SLOTS[i] : i \in 1..Len(SLOTS)}

\* the if/elif chain on the lower-cased name: the slot it marks
Chave(nome) ==
    IF Contem(nome, "seguro") THEN "seg"
    ELSE IF Contem(nome, "câmbio") \/ Contem(nome, "cambio") THEN "cam"
    ELSE IF Contem(nome, "terceiras") THEN "co_ter"
    ELSE IF Contem(nome, "xpvp") THEN "co_xpvp"
    ELSE IF Contem(nome, "crédito") \/ Contem(nome, "credito") THEN "cre"
    ELSE IF Contem(nome, "xpcs") THEN "xpcs"
    ELSE IF Contem(nome, "lançamentos manuais") \/ Contem(nome, "lancamentos manuais")
         THEN "lan_man"
    ELSE IF Contem(nome, "times e repasses") THEN "tim_rep"
    ELSE IF Contem(nome, "lançamento de produtos") \/ Contem(nome, "lancamento de produtos")
         THEN "lan_pro"
    ELSE SemChave

(***************************************************************************)
(* Uploaded files.  A file object is a number; its filename attribute is    *)
(* the text NOMES holds for it.  Two files may carry the same name.         *)
(***************************************************************************)

\* file names a user may send: the ten expected exports, and the near misses
NOMES == <<"PJ1 Base.xlsx",
           "Seguro PJ.xlsx",
           "Câmbio.xlsx",
           "Co-corretagem Terceiras.xlsx",
           "Co-corretagem XPVP.xlsx",
           "Credito.xlsx",
           "XPCS.xlsx",
           "Lançamentos Manuais.xlsx",
           "Times e Repasses.xlsx",
           "Lancamento de Produtos.xlsx",
           "Seguro Cambio.xlsx",
           "SEGURO PJ.XLSX",
           "Relatorio.xlsx",
           "">>

Arquivos == 1..Len(NOMES)

\* (f.filename or "").lower()
NomeMinusculo == [f \in Arquivos |-> Lower(NOMES[f])]

\* marca(chave) with the test of the slot left out: a later file replaces
\* an earlier one
MarcaSemTeste(st, chave, f) ==
    [slots |-> [st.slots EXCEPT ![chave] = f],
     usados |-> st.usados \cup {NomeMinusculo[f]}]

\* marca(chave) for the file f: only an empty slot is filled, and only then
\* is the name recorded as used
Marca(st, chave, f) ==
    IF st.slots[chave] = None
    THEN [slots |-> [st.slots EXCEPT ![chave] = f],
          usados |-> st.usados \cup {NomeMinusculo[f]}]
    ELSE st

RECURSIVE Percorre(_, _, _)
\* the for loop over uploaded_files, from position i on
Percorre(files, i, st) ==
    IF i > Len(files) THEN st
    ELSE LET chave == Chave(NomeMinusculo[files[i]])
         IN  Percorre(files, i + 1,
                      IF chave = SemChave THEN st ELSE Marca(st, chave, files[i]))

\* nao_usados: the files whose lower-cased name was not recorded as used
NaoUsados(files, usados) ==
    SelectSeq(files, LAMBDA f : NomeMinusculo[f] \notin usados)

\* the fallback of pj1
Fallback(slots, nao_usados) ==
    IF nao_usados # <<>> /\ slots["pj1"] = None
    THEN [slots EXCEPT !["pj1"] = nao_usados[1]]
    ELSE slots

\* only the first of the keys whose slot is still None
FaltandoSoPrimeiro(slots) ==
    IF \A k \in SlotKeys : slots[k] # None THEN <<>>
    ELSE <<SelectSeq(SLOTS, LAMBDA k : slots[k] = None)[1]>>

\* faltando: the keys whose slot is still None, in dict order
Faltando(slots) == SelectSeq(SLOTS, LAMBDA k : slots[k] = None)

classificar_arquivos(files) ==
    LET st == Percorre(files, 1, [slots |-> [k \in SlotKeys |-> None], usados |-> {}])
        slots == Fallback(st.slots, NaoUsados(files, st.usados))
    IN  [slots |-> slots, faltando |-> Faltando(slots)]

(***************************************************************************)
(* Request parsing, timestamps and paths                                   *)
(***************************************************************************)

RECURSIVE Strip(_)
\* str.strip(), for the blanks a form field may carry
Strip(s) ==
    IF s = "" THEN ""
    ELSE IF Ch(s, 1) = " " THEN Strip(SubSeq(s, 2, Len(s)))
    ELSE IF Ch(s, Len(s)) = " " THEN Strip(SubSeq(s, 1, Len(s) - 1))
    ELSE s

DIGITOS == "0123456789"

\* \d
EhDigito(c) == \E i \in 1..Len(DIGITOS) : Ch(DIGITOS, i) = c

\* every character of s from position a to position b is a digit
SoDigitos(s, a, b) == \A i \in a..b : EhDigito(Ch(s, i))

\* a match of ^\d{4}-\d{1,2}$, which lets a month of one digit in
EhCompetenciaFrouxa(s) ==
    /\ Len(s) \in {6, 7}
    /\ SoDigitos(s, 1, 4)
    /\ Ch(s, 5) = "-"
    /\ SoDigitos(s, 6, Len(s))

\* re.match(r"^\d{4}-\d{2}$", s)
EhCompetencia(s) ==
    /\ Len(s) = 7
    /\ SoDigitos(s, 1, 4)
    /\ Ch(s, 5) = "-"
    /\ SoDigitos(s, 6, 7)

RECURSIVE Join(_, _)
\* sep.join(seq)
Join(seq, sep) ==
    IF seq = <<>> THEN ""
    ELSE IF Len(seq) = 1 THEN seq[1]
    ELSE seq[1] \o sep \o Join(Tail(seq), sep)

RECURSIVE Pad(_, _)
\* n in decimal, zero-padded to w digits (%Y, %m, %d, %H, %M, %S)
Pad(n, w) == IF w = 0 THEN "" ELSE Pad(n \div 10, w - 1) \o Ch(DIGITOS, (n % 10) + 1)

\* the instant the clock starts at
HORA_INICIAL == [ano |-> 2025, mes |-> 12, dia |-> 1, hora |-> 0, minuto |-> 0, segundo |-> 59]

TicksPorSegundo == 2

MaxRelogio == 3

\* datetime.now() at tick t (the run stays within the hour)
Agora(t) ==
    LET s == HORA_INICIAL.segundo + (t \div TicksPorSegundo)
    IN  [HORA_INICIAL EXCEPT !.segundo = s % 60,
                             !.minuto = HORA_INICIAL.minuto + (s \div 60)]

\* datetime.strftime("%Y%m%d_%H%M%S"): the fraction of the second is dropped
Strftime(d) ==
    Pad(d.ano, 4) \o Pad(d.mes, 2) \o Pad(d.dia, 2) \o "_"
        \o Pad(d.hora, 2) \o Pad(d.minuto, 2) \o Pad(d.segundo, 2)

\* the twelve uploads of a run, in the order of the calls to upload_df: the
\* table and the base name of the object
UPLOADS == <<[tabela |-> "df_final",  base |-> "df_final"],
             [tabela |-> "df_juntar", base |-> "df_juntar"],
             [tabela |-> "pj1",       base |-> "pj1"],
             [tabela |-> "seg",       base |-> "seguro_pj"],
             [tabela |-> "cam",       base |-> "cambio"],
             [tabela |-> "co_ter",    base |-> "co_corretagem_terceiras"],
             [tabela |-> "co_xpvp",   base |-> "co_corretagem_xpvp"],
             [tabela |-> "cre",       base |-> "credito"],
             [tabela |-> "xpcs",      base |-> "xpcs"],
             [tabela |-> "lan_man",   base |-> "lancamentos_manuais"],
             [tabela |-> "tim_rep",   base |-> "times_repasses"],
             [tabela |-> "lan_pro",   base |-> "lancamento_produtos"]>>

\* the path with the competence prefix left out
CaminhoSemPrefixo(prefixo_competencia, base, timestamp) ==
    base \o "_" \o timestamp \o ".xlsx"

\* f"{prefixo_competencia}/{base}_{timestamp}.xlsx"
Caminho(prefixo_competencia, base, timestamp) ==
    prefixo_competencia \o "/" \o base \o "_" \o timestamp \o ".xlsx"

\* the local writes of a run, in the order of the calls to to_excel:
\* OUTPUT_FILES, relative to OUTPUT_DIR
OUTPUT_FILES == <<[tabela |-> "df_final",  arquivo |-> "df_final.xlsx"],
                  [tabela |-> "df_juntar", arquivo |-> "df_juntar.xlsx"],
                  [tabela |-> "pj1",       arquivo |-> "pj1.xlsx"],
                  [tabela |-> "seg",       arquivo |-> "seguro_pj.xlsx"],
                  [tabela |-> "cam",       arquivo |-> "cambio.xlsx"],
                  [tabela |-> "co_ter",    arquivo |-> "co_corretagem_terceiras.xlsx"],
                  [tabela |-> "co_xpvp",   arquivo |-> "co_corretagem_xpvp.xlsx"],
                  [tabela |-> "cre",       arquivo |-> "credito.xlsx"],
                  [tabela |-> "xpcs",      arquivo |-> "xpcs.xlsx"],
                  [tabela |-> "lan_man",   arquivo |-> "lancamentos_manuais.xlsx"],
                  [tabela |-> "tim_rep",   arquivo |-> "times_repasses.xlsx"],
                  [tabela |-> "lan_pro",   arquivo |-> "lancamento_produtos.xlsx"]>>

\* f with v stored under key k
Grava(f, k, v) == [x \in (DOMAIN f) \cup {k} |-> IF x = k THEN v ELSE f[x]]

(***************************************************************************)
(* /processar                                                              *)
(***************************************************************************)

\* the requests in flight
PEDIDOS == {"p1", "p2"}

\* what the competencia form field may hold
COMPETENCIAS == {"2025-12", " 2026-01 ", "2025-1", "12/2025", ""}

\* what the files form field may hold: nothing, one file without name, the
\* ten exports, nine exports (pj1 or cambio absent), eight exports (seguro
\* and xpcs absent), and four files of which two are for seguro
ENVIOS == {<<>>,
           <<14>>,
           <<1, 2, 3, 4, 5, 6, 7, 8, 9, 10>>,
           <<2, 3, 4, 5, 6, 7, 8, 9, 10>>,
           <<1, 2, 4, 5, 6, 7, 8, 9, 10>>,
           <<1, 3, 4, 5, 6, 8, 9, 10>>,
           <<13, 12, 2, 3>>}

\* the texts of the flash calls, without their accents
FLASH_COMPETENCIA == "Selecione a competencia (mes/ano) antes de processar."
FLASH_NENHUM == "Nenhum arquivo foi enviado. Selecione a pasta ou os arquivos de comissao."
FLASH_FALTANDO == "Nao consegui identificar estes tipos de arquivo: "
FLASH_CONFIRA == "Confira se os nomes contem: Seguro, Cambio, Terceiras, XPVP, Credito, XPCS, Lancamentos Manuais, Times e Repasses, Lancamento de Produtos."
FLASH_UPLOAD == "Nao consegui enviar os Excels para o Supabase. Voce ainda pode ver a tabela na tela."

\* a request not yet received
PedidoNovo ==
    [pc |-> "inicio", passo |-> 0, competencia |-> "", arquivos |-> <<>>,
     slots |-> [k \in SlotKeys |-> None], faltando |-> <<>>,
     lidos |-> <<>>, chamada |-> <<>>, flashes |-> <<>>,
     timestamp |-> "", nome_arquivo_df_final |-> "", destinos |-> {},
     resposta |-> "", caminho_df_final |-> ""]

\* the deployments: on Vercel or on a machine, with or without the store
InitProcessar ==
    /\ vercel \in BOOLEAN
    /\ supabase \in BOOLEAN
    /\ relogio = 0
    /\ pedidos = [p \in PEDIDOS |-> PedidoNovo]
    /\ bucket = << >>
    /\ outputs = << >>

\* flash(...) and return redirect(url_for("index"))
Rejeita(p, competencia, arquivos, c, mensagens) ==
    pedidos' = [pedidos EXCEPT ![p] =
        [@ EXCEPT !.pc = "fim", !.competencia = competencia, !.arquivos = arquivos,
                  !.slots = c.slots, !.faltando = c.faltando,
                  !.flashes = mensagens, !.resposta = "redirect index"]]

\* limit of the exploration: where a run both writes OUTPUT_DIR and uploads,
\* the requests are taken one after the other; the steps of two requests are
\* interleaved where a run only writes OUTPUT_DIR (no client) and where it
\* only uploads (VERCEL)
UmDeCadaVez(p) ==
    (~vercel /\ supabase) => \A q \in PEDIDOS \ {p} : pedidos[q].pc \in {"inicio", "fim"}

\* processar, from the request to the classification of its files
Processar(p) ==
    /\ pedidos[p].pc = "inicio"
    /\ UmDeCadaVez(p)
    /\ \E campo \in COMPETENCIAS, arquivos \in ENVIOS :
          LET competencia == Strip(campo)
              vazio == [slots |-> [k \in SlotKeys |-> None], faltando |-> <<>>]
              c == classificar_arquivos(arquivos)
          IN  IF ~EhCompetencia(competencia)
              THEN Rejeita(p, competencia, arquivos, vazio, <<FLASH_COMPETENCIA>>)
              ELSE IF arquivos = <<>> \/ NOMES[arquivos[1]] = ""
              THEN Rejeita(p, competencia, arquivos, vazio, <<FLASH_NENHUM>>)
              ELSE IF c.faltando # <<>>
              THEN Rejeita(p, competencia, arquivos, c,
                           <<FLASH_FALTANDO \o Join(c.faltando, ", "), FLASH_CONFIRA>>)
              ELSE pedidos' = [pedidos EXCEPT ![p] =
                       [@ EXCEPT !.pc = "ler", !.competencia = competencia,
                                 !.arquivos = arquivos, !.slots = c.slots,
                                 !.faltando = c.faltando]]
    /\ UNCHANGED <<vercel, supabase, relogio, bucket, outputs>>
    /\ UNCHANGED varsOutros

\* the ten pd.read_excel, calcular_comissoes and the rounding of df_final
LerECalcular(p) ==
    /\ pedidos[p].pc = "ler"
    /\ LET fontes == [i \in 1..Len(SLOTS) |-> pedidos[p].slots[SLOTS[i]]]
       IN  pedidos' = [pedidos EXCEPT ![p] =
               [@ EXCEPT !.lidos = fontes, !.chamada = fontes,
                         !.pc = IF vercel THEN "supabase" ELSE "local",
                         !.passo = IF vercel THEN 0 ELSE 1]]
    /\ UNCHANGED <<vercel, supabase, relogio, bucket, outputs>>
    /\ UNCHANGED varsOutros

\* pd.read_excel or calcular_comissoes raises: the request ends in an error
LerECalcularErro(p) ==
    /\ pedidos[p].pc = "ler"
    /\ pedidos' = [pedidos EXCEPT ![p] = [@ EXCEPT !.pc = "fim", !.resposta = "erro 500"]]
    /\ UNCHANGED <<vercel, supabase, relogio, bucket, outputs>>
    /\ UNCHANGED varsOutros

\* one to_excel of the local block: the twelve OUTPUT_FILES, then df_final
\* once more under the folder of the competence
SalvarLocal(p) ==
    /\ pedidos[p].pc = "local"
    /\ LET i == pedidos[p].passo
           ultimo == i = Len(OUTPUT_FILES) + 1
           arquivo == IF ultimo THEN pedidos[p].competencia \o "/df_final.xlsx"
                      ELSE OUTPUT_FILES[i].arquivo
           tabela == IF ultimo THEN "df_final" ELSE OUTPUT_FILES[i].tabela
       IN  /\ outputs' = Grava(outputs, arquivo, [de |-> p, tabela |-> tabela])
           /\ pedidos' = [pedidos EXCEPT ![p] =
                  [@ EXCEPT !.pc = IF ultimo THEN "supabase" ELSE "local",
                            !.passo = IF ultimo THEN 0 ELSE i + 1]]
    /\ UNCHANGED <<vercel, supabase, relogio, bucket>>
    /\ UNCHANGED varsOutros

\* nome_arquivo_df_final = None; with a client, the timestamp of the run
TomarTimestamp(p) ==
    /\ pedidos[p].pc = "supabase"
    /\ pedidos' = [pedidos EXCEPT ![p] =
           IF supabase
           THEN [@ EXCEPT !.pc = "upload", !.passo = 1,
                          !.timestamp = Strftime(Agora(relogio))]
           ELSE [@ EXCEPT !.pc = "render"]]
    /\ UNCHANGED <<vercel, supabase, relogio, bucket, outputs>>
    /\ UNCHANGED varsOutros

\* the path of the upload a request is at
Destino(p) ==
    Caminho(pedidos[p].competencia, UPLOADS[pedidos[p].passo].base, pedidos[p].timestamp)

\* one upload_df that succeeds; the store takes no object under a path it holds
Upload(p) ==
    /\ pedidos[p].pc = "upload"
    /\ Destino(p) \notin DOMAIN bucket
    /\ LET i == pedidos[p].passo
       IN  /\ bucket' = Grava(bucket, Destino(p), [de |-> p, tabela |-> UPLOADS[i].tabela])
           /\ pedidos' = [pedidos EXCEPT ![p] =
                  [@ EXCEPT !.nome_arquivo_df_final = IF i = 1 THEN Destino(p) ELSE @,
                            !.destinos = @ \cup {Destino(p)},
                            !.pc = IF i = Len(UPLOADS) THEN "render" ELSE "upload",
                            !.passo = IF i = Len(UPLOADS) THEN 0 ELSE i + 1]]
    /\ UNCHANGED <<vercel, supabase, relogio, outputs>>
    /\ UNCHANGED varsOutros

\* one upload_df that raises (the path is taken, or the store does not
\* answer): the except block
UploadErro(p) ==
    /\ pedidos[p].pc = "upload"
    /\ pedidos' = [pedidos EXCEPT ![p] =
           [@ EXCEPT !.destinos = @ \cup {Destino(p)},
                     !.flashes = Append(@, FLASH_UPLOAD),
                     !.nome_arquivo_df_final = "",
                     !.pc = "render", !.passo = 0]]
    /\ UNCHANGED <<vercel, supabase, relogio, bucket, outputs>>
    /\ UNCHANGED varsOutros

\* montar_contexto_dashboard and render_template("resultado.html")
Render(p) ==
    /\ pedidos[p].pc = "render"
    /\ pedidos' = [pedidos EXCEPT ![p] =
           [@ EXCEPT !.pc = "fim", !.resposta = "resultado.html",
                     !.caminho_df_final = pedidos[p].nome_arquivo_df_final]]
    /\ UNCHANGED <<vercel, supabase, relogio, bucket, outputs>>
    /\ UNCHANGED varsOutros

\* time passes; the clock is read by TomarTimestamp alone
Tique ==
    /\ supabase
    /\ relogio < MaxRelogio
    /\ \E p \in PEDIDOS : pedidos[p].pc \in {"inicio", "ler", "local", "supabase"}
    /\ relogio' = relogio + 1
    /\ UNCHANGED <<vercel, supabase, pedidos, bucket, outputs>>
    /\ UNCHANGED varsOutros

\* no request is served
ProcessarParado ==
    /\ vercel = FALSE
    /\ supabase = FALSE
    /\ relogio = 0
    /\ pedidos = [p \in PEDIDOS |-> PedidoNovo]
    /\ bucket = << >>
    /\ outputs = << >>

\* the classifier is not run on its own
ClassificarParado ==
    /\ uploaded_files = <<>>
    /\ classificado = <<>>

\* no listing is asked for
ListarParado == listagem = <<>>

\* no dashboard is being made
PainelParado ==
    painel = [pc |-> "parado", rota |-> "", fontes |-> [k \in SlotKeys |-> <<>>],
              df_juntar |-> <<>>, df_final |-> <<>>, tem_coluna |-> TRUE,
              contexto |-> << >>]

Init ==
    /\ InitProcessar
    /\ ClassificarParado
    /\ ListarParado
    /\ PainelParado

Next ==
    \/ \E p \in PEDIDOS : Processar(p)
    \/ \E p \in PEDIDOS : LerECalcular(p)
    \/ \E p \in PEDIDOS : LerECalcularErro(p)
    \/ \E p \in PEDIDOS : SalvarLocal(p)
    \/ \E p \in PEDIDOS : TomarTimestamp(p)
    \/ \E p \in PEDIDOS : Upload(p)
    \/ \E p \in PEDIDOS : UploadErro(p)
    \/ \E p \in PEDIDOS : Render(p)
    \/ Tique

Spec == Init /\ [][Next]_vars

(***************************************************************************)
(* Listing the object store                                                *)
(***************************************************************************)

\* the characters of object names, in the order of their code points
ORDEM == "-./0123456789_abcdefghijklmnopqrstuvwxyz"

\* ord(c)
Ord(c) == CHOOSE i \in 1..Len(ORDEM) : Ch(ORDEM, i) = c

RECURSIVE Menor(_, _)
\* a < b for str: the first differing character decides, a prefix is smaller
Menor(a, b) ==
    IF b = "" THEN FALSE
    ELSE IF a = "" THEN TRUE
    ELSE IF Ch(a, 1) # Ch(b, 1) THEN Ord(Ch(a, 1)) < Ord(Ch(b, 1))
    ELSE Menor(SubSeq(a, 2, Len(a)), SubSeq(b, 2, Len(b)))

RECURSIVE InsereCrescente(_, _)
\* x placed into a list sorted in increasing order
InsereCrescente(x, seq) ==
    IF seq = <<>> THEN <<x>>
    ELSE IF Menor(seq[1], x) THEN <<seq[1]>> \o InsereCrescente(x, Tail(seq))
    ELSE <<x>> \o seq

RECURSIVE SortedCrescente(_)
\* sorted(seq), without reverse=True
SortedCrescente(seq) ==
    IF seq = <<>> THEN <<>> ELSE InsereCrescente(seq[1], SortedCrescente(Tail(seq)))

RECURSIVE InsereDecrescente(_, _)
\* x placed into a list sorted in decreasing order
InsereDecrescente(x, seq) ==
    IF seq = <<>> THEN <<x>>
    ELSE IF Menor(x, seq[1]) THEN <<seq[1]>> \o InsereDecrescente(x, Tail(seq))
    ELSE <<x>> \o seq

RECURSIVE SortedReverse(_)
\* sorted(seq, reverse=True)
SortedReverse(seq) ==
    IF seq = <<>> THEN <<>> ELSE InsereDecrescente(seq[1], SortedReverse(Tail(seq)))

\* re.match(r"^df_final_\d{8}_\d{6}\.xlsx$", nome)
EhDfFinal(nome) ==
    /\ Len(nome) = 29
    /\ SubSeq(nome, 1, 9) = "df_final_"
    /\ SoDigitos(nome, 10, 17)
    /\ Ch(nome, 18) = "_"
    /\ SoDigitos(nome, 19, 24)
    /\ SubSeq(nome, 25, 29) = ".xlsx"

\* the objects the store may hold before a listing: folder and name
OBJETOS == <<[pasta |-> "2025-12", nome |-> "df_final_20251201_000100.xlsx"],
             [pasta |-> "2025-12", nome |-> "df_final_20251130_235959.xlsx"],
             [pasta |-> "2025-12", nome |-> "df_final_20251201_000059.xlsx"],
             [pasta |-> "2025-12", nome |-> "df_final_20251209_000000.xlsx"],
             [pasta |-> "2025-12", nome |-> "df_final_20251210_000000.xlsx"],
             [pasta |-> "2025-12", nome |-> "df_juntar_20251201_000100.xlsx"],
             [pasta |-> "2025-12", nome |-> "df_final.xlsx"],
             [pasta |-> "2025-12", nome |-> "df_final_2025121_000059.xlsx"],
             [pasta |-> "2025-12", nome |-> "df_final_20251201_000059.xlsx.bak"],
             [pasta |-> "2025-12", nome |-> "xdf_final_20251201_000059.xlsx"],
             [pasta |-> "2025-12", nome |-> "df_final_20251201_000059-xlsx"],
             [pasta |-> "2026-01", nome |-> "df_final_20260105_120000.xlsx"]>>

\* the competences a listing is asked for
CONSULTAS == {"2025-12", "2026-01", "2024-07"}

\* the store with the objects at the positions of S
BucketCom(S) ==
    [c \in {OBJETOS[i].pasta \o "/" \o OBJETOS[i].nome : i \in S} |->
        [de |-> "", tabela |-> ""]]

\* storage.from_(SUPABASE_BUCKET).list(path): the names of the objects under
\* the folder, in the order of OBJETOS or in the opposite order
Itens(path, rev) ==
    LET achados == SelectSeq(OBJETOS, LAMBDA o :
                       o.pasta = path /\ (o.pasta \o "/" \o o.nome) \in DOMAIN bucket)
    IN  [i \in 1..Len(achados) |->
            achados[IF rev THEN Len(achados) + 1 - i ELSE i].nome]

\* _supabase_list(path): [] without a client, and [] when the call raises
supabase_list(path, rev, falha) ==
    IF ~supabase THEN <<>>
    ELSE IF falha THEN <<>>
    ELSE Itens(path, rev)

\* listar_df_final_por_competencia, given what _supabase_list returned
listar_df_final_por_competencia(competencia, itens) ==
    SortedReverse([i \in 1..Len(SelectSeq(itens, EhDfFinal)) |->
                      competencia \o "/" \o SelectSeq(itens, EhDfFinal)[i]])

\* escolher_mais_recente_df_final, given the list; "" is None
escolher_mais_recente_df_final(arquivos) ==
    IF arquivos # <<>> THEN arquivos[1] ELSE ""

InitListar ==
    /\ \E S \in SUBSET (1..Len(OBJETOS)) : bucket = BucketCom(S)
    /\ supabase \in BOOLEAN
    /\ vercel = FALSE
    /\ relogio = 0
    /\ pedidos = [p \in PEDIDOS |-> PedidoNovo]
    /\ outputs = << >>
    /\ listagem = <<>>
    /\ ClassificarParado
    /\ PainelParado

\* one call of escolher_mais_recente_df_final that the store answers
Listar ==
    /\ listagem = <<>>
    /\ \E competencia \in CONSULTAS, rev \in BOOLEAN :
          LET arquivos == listar_df_final_por_competencia(
                              competencia, supabase_list(competencia, rev, FALSE))
          IN  listagem' = <<[competencia |-> competencia, respondeu |-> supabase,
                             arquivos |-> arquivos,
                             mais_recente |-> escolher_mais_recente_df_final(arquivos)]>>
    /\ UNCHANGED <<varsProcessar, varsClassificar, varsPainel>>

\* one call of escolher_mais_recente_df_final during which the store raises
ListarErro ==
    /\ listagem = <<>>
    /\ supabase
    /\ \E competencia \in CONSULTAS, rev \in BOOLEAN :
          LET arquivos == listar_df_final_por_competencia(
                              competencia, supabase_list(competencia, rev, TRUE))
          IN  listagem' = <<[competencia |-> competencia, respondeu |-> FALSE,
                             arquivos |-> arquivos,
                             mais_recente |-> escolher_mais_recente_df_final(arquivos)]>>
    /\ UNCHANGED <<varsProcessar, varsClassificar, varsPainel>>

NextListar ==
    \/ Listar
    \/ ListarErro

SpecListar == InitListar /\ [][NextListar]_vars

(***************************************************************************)
(* The dashboard: the engine's two tables, the rounding, the metrics       *)
(***************************************************************************)

\* Amounts are whole numbers of thousandths of a real.  A metric is a
\* fraction [num, den] of thousandths; den = 0 is NaN.

\* the advisors and the amounts of the rows of the sources; the amounts are
\* even, so that no sum of them lies half-way between two cents
ASSESSORES == {"A1", "A2"}
VALORES == {-1000000, 4, 500004, 1000000}

\* the sources that have rows
FONTES_COM_LINHAS == {"pj1", "lan_man"}

MaxLinhas == 3

RECURSIVE Dec(_)
\* a natural number in decimal
Dec(n) == IF n < 10 THEN Ch(DIGITOS, n + 1) ELSE Dec(n \div 10) \o Ch(DIGITOS, (n % 10) + 1)

RECURSIVE Milhares(_)
\* the "," option of the format: the integer part in groups of three digits
Milhares(n) ==
    IF n < 1000 THEN Dec(n) ELSE Milhares(n \div 1000) \o "," \o Pad(n % 1000, 3)

RECURSIVE Replace(_, _, _)
\* str.replace(a, b), for one-character a and b
Replace(s, a, b) ==
    IF s = "" THEN ""
    ELSE (IF Ch(s, 1) = a THEN b ELSE Ch(s, 1)) \o Replace(SubSeq(s, 2, Len(s)), a, b)

\* the whole number of cents nearest to num/den thousandths; half-way, sobe
\* tells the side the binary value of the float falls on
Centavos(num, den, sobe) ==
    LET d == 10 * den
        q == num \div d
        r == num % d
    IN  IF 2 * r < d THEN q
        ELSE IF 2 * r > d THEN q + 1
        ELSE IF sobe THEN q + 1 ELSE q

\* Series.round(2): the nearest cent, in thousandths; half-way, the even cent
Round2(m) ==
    LET q == m \div 10
        r == m % 10
    IN  10 * (IF r < 5 THEN q
              ELSE IF r > 5 THEN q + 1
              ELSE IF q % 2 = 0 THEN q ELSE q + 1)

\* f"{valor:,.2f}": a value that is negative keeps its sign when it rounds
\* to zero
Formata(v, sobe) ==
    LET c == Centavos(v.num, v.den, sobe)
        a == IF c < 0 THEN -c ELSE c
    IN  (IF v.num < 0 THEN "-" ELSE "")
            \o Milhares(a \div 100) \o "." \o Pad(a % 100, 2)

\* brl(valor)
brl(v, sobe) ==
    LET valor == IF v.den = 0 THEN [num |-> 0, den |-> 1] ELSE v
    IN  Replace(Replace(Replace("R$ " \o Formata(valor, sobe), ",", "v"), ".", ","), "v", ".")

\* the rows of a table that are of one advisor
LinhasDe(tabela, a) == SelectSeq(tabela, LAMBDA l : l.assessor = a)

RECURSIVE Soma(_)
\* Series.sum() of the column of amounts
Soma(coluna) == IF coluna = <<>> THEN 0 ELSE coluna[1] + Soma(Tail(coluna))

RECURSIVE Maximo(_)
\* Series.max() of a column that is not empty
Maximo(coluna) ==
    IF Len(coluna) = 1 THEN coluna[1]
    ELSE LET m == Maximo(Tail(coluna)) IN IF coluna[1] > m THEN coluna[1] ELSE m

RECURSIVE Unificar(_, _)
\* the Joiner: the rows of the ten sources, in the order of the ten kinds and
\* then in the order of the rows of each source, with the kind kept
Unificar(fontes, i) ==
    IF i > Len(SLOTS) THEN <<>>
    ELSE [j \in 1..Len(fontes[SLOTS[i]]) |->
             [source_kind |-> SLOTS[i],
              assessor |-> fontes[SLOTS[i]][j].assessor,
              valor |-> fontes[SLOTS[i]][j].valor]]
         \o Unificar(fontes, i + 1)

RECURSIVE AgregarSoPositivos(_)
\* an Aggregator that leaves out the advisors whose total is not positive
AgregarSoPositivos(ledger) ==
    IF ledger = <<>> THEN <<>>
    ELSE LET a == ledger[1].assessor
             total == Soma([j \in 1..Len(LinhasDe(ledger, a)) |-> LinhasDe(ledger, a)[j].valor])
             resto == AgregarSoPositivos(SelectSeq(ledger, LAMBDA l : l.assessor # a))
         IN  IF total > 0 THEN <<[assessor |-> a, total |-> total]>> \o resto ELSE resto

RECURSIVE Agregar(_)
\* the Aggregator: one row per advisor of the ledger, with the exact sum of
\* the amounts of the rows of that advisor
Agregar(ledger) ==
    IF ledger = <<>> THEN <<>>
    ELSE LET a == ledger[1].assessor
             total == Soma([j \in 1..Len(LinhasDe(ledger, a)) |-> LinhasDe(ledger, a)[j].valor])
         IN  <<[assessor |-> a, total |-> total]>>
                 \o Agregar(SelectSeq(ledger, LAMBDA l : l.assessor # a))

\* calcular_comissoes: (df_final, df_juntar)
calcular_comissoes(fontes) ==
    LET df_juntar == Unificar(fontes, 1)
    IN  [df_final |-> Agregar(df_juntar), df_juntar |-> df_juntar]

\* df_final[colunas_numericas].round(2)
Arredonda(df_final) ==
    [i \in 1..Len(df_final) |->
        [assessor |-> df_final[i].assessor, total |-> Round2(df_final[i].total)]]

\* the column "Valor Total Assessor"
ValorTotalAssessor(df_final) == [i \in 1..Len(df_final) |-> df_final[i].total]

\* the metrics of montar_contexto_dashboard, for the rounded table
Metricas(df_final, tem_coluna) ==
    LET coluna == ValorTotalAssessor(df_final)
    IN  IF tem_coluna
        THEN [total_assessores |-> Len(df_final),
              soma_total  |-> [num |-> Soma(coluna), den |-> 1],
              media_total |-> [num |-> Soma(coluna), den |-> Len(coluna)],
              max_total   |-> IF coluna = <<>> THEN [num |-> 0, den |-> 0]
                              ELSE [num |-> Maximo(coluna), den |-> 1]]
        ELSE [total_assessores |-> Len(df_final),
              soma_total  |-> [num |-> 0, den |-> 1],
              media_total |-> [num |-> 0, den |-> 1],
              max_total   |-> [num |-> 0, den |-> 1]]

\* the dict montar_contexto_dashboard returns, for the keys of the metrics
montar_contexto_dashboard(df_final, tem_coluna, sobe) ==
    LET m == Metricas(df_final, tem_coluna)
    IN  [total_assessores |-> m.total_assessores,
         soma_total    |-> brl(m.soma_total, sobe),
         media_total   |-> brl(m.media_total, sobe),
         max_total     |-> brl(m.media_total, sobe),
         max_total_val |-> brl(m.max_total, sobe)]

\* a context that loses max_total_val and keeps its max_total
SemCorrecao(contexto) ==
    [k \in DOMAIN contexto \ {"max_total_val"} |-> contexto[k]]

\* contexto["max_total"] = contexto.pop("max_total_val")
CorrigeMax(contexto) ==
    [k \in DOMAIN contexto \ {"max_total_val"} |->
        IF k = "max_total" THEN contexto["max_total_val"] ELSE contexto[k]]

\* the tables of the sources that a list of rows makes
FontesDe(linhas) ==
    [k \in SlotKeys |->
        LET minhas == SelectSeq(linhas, LAMBDA l : l.fonte = k)
        IN  [j \in 1..Len(minhas) |->
                [assessor |-> minhas[j].assessor, valor |-> minhas[j].valor]]]

LINHAS == [fonte : FONTES_COM_LINHAS, assessor : ASSESSORES, valor : VALORES]

InitPainel ==
    /\ \E n \in 0..MaxLinhas : \E linhas \in [1..n -> LINHAS] :
       \E rota \in {"processar", "visualizar_antigo"} :
          painel = [pc |-> "inicio", rota |-> rota, fontes |-> FontesDe(linhas),
                    df_juntar |-> <<>>, df_final |-> <<>>, tem_coluna |-> TRUE,
                    contexto |-> << >>]
    /\ ProcessarParado
    /\ ClassificarParado
    /\ ListarParado

\* processar: the engine returns its two tables
Calcular ==
    /\ painel.pc = "inicio"
    /\ painel.rota = "processar"
    /\ painel' = [painel EXCEPT !.pc = "calculado",
                                !.df_final = calcular_comissoes(painel.fontes).df_final,
                                !.df_juntar = calcular_comissoes(painel.fontes).df_juntar]
    /\ UNCHANGED <<varsProcessar, varsClassificar, varsListar>>

\* processar: the numeric columns of df_final are rounded
Arredondar ==
    /\ painel.pc = "calculado"
    /\ painel' = [painel EXCEPT !.pc = "carregado", !.df_final = Arredonda(painel.df_final)]
    /\ UNCHANGED <<varsProcessar, varsClassificar, varsListar>>

\* visualizar_antigo: df_final and df_juntar are read from the store; the
\* object read is one that an earlier run stored, or a workbook of the same
\* rows that was not rounded, or one without the column of the totals
Carregar ==
    /\ painel.pc = "inicio"
    /\ painel.rota = "visualizar_antigo"
    /\ \E arredondado \in BOOLEAN, tem_coluna \in BOOLEAN :
          LET tabelas == calcular_comissoes(painel.fontes)
          IN  painel' = [painel EXCEPT
                  !.pc = "carregado",
                  !.tem_coluna = tem_coluna,
                  !.df_juntar = tabelas.df_juntar,
                  !.df_final = IF arredondado THEN Arredonda(tabelas.df_final)
                               ELSE tabelas.df_final]
    /\ UNCHANGED <<varsProcessar, varsClassificar, varsListar>>

\* montar_contexto_dashboard: df_final is rounded in place and the dict is made
Montar ==
    /\ painel.pc = "carregado"
    /\ \E sobe \in BOOLEAN :
          painel' = [painel EXCEPT
              !.pc = "montado",
              !.df_final = Arredonda(painel.df_final),
              !.contexto = montar_contexto_dashboard(
                               Arredonda(painel.df_final), painel.tem_coluna, sobe)]
    /\ UNCHANGED <<varsProcessar, varsClassificar, varsListar>>

\* the caller corrects max_total and renders resultado.html
Renderizar ==
    /\ painel.pc = "montado"
    /\ painel' = [painel EXCEPT !.pc = "pronto", !.contexto = CorrigeMax(painel.contexto)]
    /\ UNCHANGED <<varsProcessar, varsClassificar, varsListar>>

NextPainel ==
    \/ Calcular
    \/ Arredondar
    \/ Carregar
    \/ Montar
    \/ Renderizar

SpecPainel == InitPainel /\ [][NextPainel]_vars

(***************************************************************************)
(* The classifier on its own                                               *)
(***************************************************************************)

\* the files of S, in increasing or in decreasing order
RECURSIVE Lista(_, _, _)
Lista(S, f, rev) ==
    IF f > Len(NOMES) THEN <<>>
    ELSE LET resto == Lista(S, f + 1, rev)
         IN  IF f \notin S THEN resto
             ELSE IF rev THEN Append(resto, f) ELSE <<f>> \o resto

MaxFiles == 12

InitClassificar ==
    /\ \E S \in SUBSET Arquivos, rev \in BOOLEAN :
          /\ Cardinality(S) <= MaxFiles
          /\ uploaded_files = Lista(S, 1, rev)
    /\ classificado = <<>>
    /\ ProcessarParado
    /\ ListarParado
    /\ PainelParado

Classificar ==
    /\ classificado = <<>>
    /\ classificado' = <<classificar_arquivos(uploaded_files)>>
    /\ UNCHANGED uploaded_files
    /\ UNCHANGED <<varsProcessar, varsListar, varsPainel>>

NextClassificar == Classificar

SpecClassificar == InitClassificar /\ [][NextClassificar]_vars

(***************************************************************************)
(* Claims about classificar_arquivos                                       *)
(***************************************************************************)

\* the substrings the if/elif chain looks for
PALAVRAS == {"seguro", "câmbio", "cambio", "terceiras", "xpvp", "crédito", "credito",
             "xpcs", "lançamentos manuais", "lancamentos manuais", "times e repasses",
             "lançamento de produtos", "lancamento de produtos"}

\* the slot of each keyword
SlotDe(palavra) ==
    CASE palavra = "seguro" -> "seg"
      [] palavra \in {"câmbio", "cambio"} -> "cam"
      [] palavra = "terceiras" -> "co_ter"
      [] palavra = "xpvp" -> "co_xpvp"
      [] palavra \in {"crédito", "credito"} -> "cre"
      [] palavra = "xpcs" -> "xpcs"
      [] palavra \in {"lançamentos manuais", "lancamentos manuais"} -> "lan_man"
      [] palavra = "times e repasses" -> "tim_rep"
      [] palavra \in {"lançamento de produtos", "lancamento de produtos"} -> "lan_pro"

\* the slots whose keyword the name of file f contains, case-insensitively
SlotsDoNome == [f \in Arquivos |-> {SlotDe(p) : p \in {q \in PALAVRAS : Contem(NomeMinusculo[f], q)}}]

TemPalavra(f) == SlotsDoNome[f] # {}

\* the slots that hold file f
SlotsCom(r, f) == {k \in SlotKeys : r.slots[k] = f}

\* the files of the upload
Enviados == {uploaded_files[i] : i \in 1..Len(uploaded_files)}

\* the position of file f in the upload
Pos(f) == CHOOSE i \in 1..Len(uploaded_files) : uploaded_files[i] = f

\* the file of S that comes first in the upload
Primeiro(S) == CHOOSE f \in S : \A g \in S : Pos(f) <= Pos(g)

SlotPreferido ==
    [f \in Arquivos |->
        IF SlotsDoNome[f] = {} THEN SemChave
        ELSE SLOTS[CHOOSE i \in 1..Len(SLOTS) :
                      /\ SLOTS[i] \in SlotsDoNome[f]
                      /\ \A j \in 1..(i - 1) : SLOTS[j] \notin SlotsDoNome[f]]]

\* the files whose name asks for slot k
Candidatos(k) == {f \in Enviados : SlotPreferido[f] = k}

\* the files whose name is not the name of a file held in a keyword slot
Restantes(r) ==
    {f \in Enviados :
        \A k \in SlotKeys \ {"pj1"} :
            r.slots[k] = None \/ NomeMinusculo[r.slots[k]] # NomeMinusculo[f]}

C9_Pj1PrimeiroSemPalavra ==
    classificado # <<>> =>
        LET pj1 == classificado[1].slots["pj1"] IN
        pj1 # None =>
            /\ ~TemPalavra(pj1)
            /\ \A g \in Enviados : Pos(g) < Pos(pj1) => TemPalavra(g)

(***************************************************************************)
(* Claims about /processar                                                 *)
(***************************************************************************)

\* the slots of a request that hold no file
Vazios(p) == {k \in SlotKeys : pedidos[p].slots[k] = None}

\* the elements of a sequence
Elementos(seq) == {seq[i] : i \in 1..Len(seq)}

\* the request has been received and its form passed the two first tests,
\* so that classificar_arquivos was called
Classificou(p) ==
    /\ pedidos[p].pc # "inicio"
    /\ pedidos[p].flashes # <<FLASH_COMPETENCIA>>
    /\ pedidos[p].flashes # <<FLASH_NENHUM>>

\* the flashed messages that start with the text of the missing-slots message
AvisosDeFalta(p) ==
    {i \in 1..Len(pedidos[p].flashes) :
        /\ Len(pedidos[p].flashes[i]) >= Len(FLASH_FALTANDO)
        /\ SubSeq(pedidos[p].flashes[i], 1, Len(FLASH_FALTANDO)) = FLASH_FALTANDO}

\* what message i of the request says after the fixed text
NomesNoAviso(p, i) ==
    SubSeq(pedidos[p].flashes[i], Len(FLASH_FALTANDO) + 1, Len(pedidos[p].flashes[i]))

\* C2: calcular_comissoes is called only with the ten slots filled; faltando
\* is exactly the set of the empty slots; and when it is not empty, one single
\* message names every empty slot (and no filled one) and nothing has been
\* read or computed.
C2_MotorSoComDezFontes ==
    \A p \in PEDIDOS :
        /\ pedidos[p].chamada # <<>> =>
              /\ Vazios(p) = {}
              /\ pedidos[p].faltando = <<>>
              /\ Len(pedidos[p].chamada) = Len(SLOTS)
              /\ \A i \in 1..Len(SLOTS) :
                    /\ pedidos[p].chamada[i] # None
                    /\ pedidos[p].chamada[i] = pedidos[p].slots[SLOTS[i]]
        /\ Classificou(p) =>
              /\ Elementos(pedidos[p].faltando) = Vazios(p)
              /\ Len(pedidos[p].faltando) = Cardinality(Vazios(p))
        /\ (Classificou(p) /\ Vazios(p) # {}) =>
              /\ pedidos[p].lidos = <<>>
              /\ pedidos[p].chamada = <<>>
              /\ pedidos[p].resposta = "redirect index"
              /\ Cardinality(AvisosDeFalta(p)) = 1
              /\ \A i \in AvisosDeFalta(p) : \A k \in SlotKeys :
                    Contem(NomesNoAviso(p, i), k) <=> k \in Vazios(p)

\* C2 witness: one request has reached the engine with its ten sources while
\* another was turned down with two slots missing, both named in its message.
C2_Witness ==
    \E p, q \in PEDIDOS :
        /\ pedidos[p].chamada # <<>>
        /\ Classificou(q)
        /\ Cardinality(Vazios(q)) = 2
        /\ \E i \in AvisosDeFalta(q) : \A k \in Vazios(q) : Contem(NomesNoAviso(q, i), k)

\* YYYY-MM: four digits, a hyphen, two digits
FormaAnoMes(s) ==
    /\ Len(s) = 7
    /\ \A i \in {1, 2, 3, 4, 6, 7} : Ch(s, i) \in {"0", "1", "2", "3", "4", "5", "6", "7", "8", "9"}
    /\ Ch(s, 5) = "-"

\* the request is one processar must turn down: its competence is not of the
\* form YYYY-MM, or it carries no file, or a slot is left unfilled
Recusavel(p) ==
    /\ pedidos[p].pc # "inicio"
    /\ \/ ~FormaAnoMes(pedidos[p].competencia)
       \/ pedidos[p].arquivos = <<>>
       \/ NOMES[pedidos[p].arquivos[1]] = ""
       \/ Vazios(p) # {}

\* C3: a request that must be turned down takes one step only, which ends it
\* in the redirect to index and leaves the files under OUTPUT_DIR and the
\* object store as they were.
C3_RecusadoNaoProduzSaida ==
    [][\A p \in PEDIDOS :
          (pedidos'[p] # pedidos[p] /\ Recusavel(p)') =>
              /\ pedidos[p].pc = "inicio"
              /\ pedidos'[p].pc = "fim"
              /\ pedidos'[p].resposta = "redirect index"
              /\ pedidos'[p].lidos = <<>>
              /\ pedidos'[p].destinos = {}
              /\ bucket' = bucket
              /\ outputs' = outputs]_vars

\* C3 witness: with files of an earlier run on disk and in the store, a
\* request with a competence of the wrong form, one without files and one
\* with an unfilled slot have each been turned down.
C3_Witness ==
    /\ bucket # << >>
    /\ outputs # << >>
    /\ \E p \in PEDIDOS :
          /\ pedidos[p].resposta = "redirect index"
          /\ FormaAnoMes(pedidos[p].competencia)
          /\ pedidos[p].arquivos # <<>>
          /\ Vazios(p) # {}
          /\ Vazios(p) # SlotKeys

\* the base names of the twelve objects of a run
BASES == {"df_final", "df_juntar", "pj1", "seguro_pj", "cambio", "co_corretagem_terceiras",
          "co_corretagem_xpvp", "credito", "xpcs", "lancamentos_manuais", "times_repasses",
          "lancamento_produtos"}

\* YYYYMMDD_HHMMSS
FormaTimestamp(t) ==
    /\ Len(t) = 15
    /\ \A i \in (1..8) \cup (10..15) : EhDigito(Ch(t, i))
    /\ Ch(t, 9) = "_"

\* the paths of the objects a request has stored
Guardados(p) == {c \in DOMAIN bucket : bucket[c].de = p}

\* the request went through the upload block without an exception
EnviouTudo(p) ==
    /\ pedidos[p].pc \in {"render", "fim"}
    /\ pedidos[p].timestamp # ""
    /\ \A i \in 1..Len(pedidos[p].flashes) : pedidos[p].flashes[i] # FLASH_UPLOAD

\* C5: a run whose uploads all succeeded has stored twelve objects, df_final,
\* df_juntar and the ten sources, all under its competence and all with the
\* one timestamp of the run, and the dashboard is handed C/df_final_T.xlsx.
C5_DozeObjetosUmTimestamp ==
    \A p \in PEDIDOS :
        EnviouTudo(p) =>
            LET C == pedidos[p].competencia
                T == pedidos[p].timestamp
            IN  /\ FormaTimestamp(T)
                /\ Cardinality(Guardados(p)) = 12
                /\ Guardados(p) = {C \o "/" \o b \o "_" \o T \o ".xlsx" : b \in BASES}
                /\ pedidos[p].nome_arquivo_df_final = C \o "/df_final_" \o T \o ".xlsx"
                /\ pedidos[p].pc = "fim" =>
                      pedidos[p].caminho_df_final = C \o "/df_final_" \o T \o ".xlsx"

\* C5 witness: a run has ended with its twelve objects stored.
C5_Witness ==
    \E p \in PEDIDOS :
        /\ EnviouTudo(p)
        /\ pedidos[p].pc = "fim"
        /\ pedidos[p].caminho_df_final # ""
        /\ Cardinality(Guardados(p)) = 12

\* the paths a request has called upload_df with, or is calling it with
Visados(p) ==
    pedidos[p].destinos \cup (IF pedidos[p].pc = "upload" THEN {Destino(p)} ELSE {})

\* C10 as stated: the paths one run uploads to are never paths another run
\* has stored, also for two runs of one competence within one second.
C10_CaminhosDisjuntos ==
    \A p, q \in PEDIDOS :
        p # q => Visados(p) \cap Guardados(q) = {}

(***************************************************************************)
(* Claims about the listing                                                *)
(***************************************************************************)

RECURSIVE Numero(_)
\* the number a string of digits writes
Numero(s) ==
    IF s = "" THEN 0
    ELSE 10 * Numero(SubSeq(s, 1, Len(s) - 1))
           + ((CHOOSE i \in 1..10 : Ch(DIGITOS, i) = Ch(s, Len(s))) - 1)

\* the name is df_final_<8 digits>_<6 digits>.xlsx
NomeDeDfFinal(nome) ==
    /\ Len(nome) = 29
    /\ LET d == SubSeq(nome, 10, 17)
           h == SubSeq(nome, 19, 24)
       IN  /\ \A i \in 1..8 : EhDigito(Ch(d, i))
           /\ \A i \in 1..6 : EhDigito(Ch(h, i))
           /\ nome = "df_final_" \o d \o "_" \o h \o ".xlsx"

\* the day and the time of day in the name of a df_final object, as numbers
Dia(caminho) == Numero(SubSeq(caminho, Len(caminho) - 19, Len(caminho) - 12))
Hora(caminho) == Numero(SubSeq(caminho, Len(caminho) - 10, Len(caminho) - 5))

\* the timestamp of a is later than the timestamp of b
MaisRecente(a, b) ==
    \/ Dia(a) > Dia(b)
    \/ Dia(a) = Dia(b) /\ Hora(a) > Hora(b)

\* the df_final objects stored under a competence
DfFinaisDe(competencia) ==
    {c \in DOMAIN bucket :
        \E i \in 1..Len(OBJETOS) :
            /\ OBJETOS[i].pasta = competencia
            /\ c = competencia \o "/" \o OBJETOS[i].nome
            /\ NomeDeDfFinal(OBJETOS[i].nome)}

\* the list holds exactly the df_final objects of the competence, the most
\* recent first, and the choice is the most recent one, or None
ListaCerta(l) ==
    /\ Elementos(l.arquivos) = DfFinaisDe(l.competencia)
    /\ \A i, j \in 1..Len(l.arquivos) :
          i < j => MaisRecente(l.arquivos[i], l.arquivos[j])
    /\ IF DfFinaisDe(l.competencia) = {} THEN l.mais_recente = ""
       ELSE /\ l.mais_recente \in DfFinaisDe(l.competencia)
            /\ \A c \in DfFinaisDe(l.competencia) \ {l.mais_recente} :
                  MaisRecente(l.mais_recente, c)

\* C4 as stated: whatever is stored under a competence, the list is exactly
\* its df_final objects, most recent first, and the choice is the most
\* recent one (None when there is none).
C4_ListaDoQueEstaGuardado ==
    listagem # <<>> => ListaCerta(listagem[1])

\* C4 amended: when there is a client and the store answers the listing, the
\* list is exactly the df_final objects of the competence, most recent first,
\* and the choice is the most recent one (None when there is none); without a
\* client, or when the listing raises, the list is empty and the choice is
\* None, whatever is stored.
C4_ListaQuandoOStoreResponde ==
    listagem # <<>> =>
        IF listagem[1].respondeu
        THEN ListaCerta(listagem[1])
        ELSE listagem[1].arquivos = <<>> /\ listagem[1].mais_recente = ""

\* C4 witness: a competence holding at least four df_final objects and three
\* other objects has been listed by a store that answered, and the choice is
\* the object of 10 December, which the store returns neither first nor last.
C4_Witness ==
    /\ listagem # <<>>
    /\ listagem[1].respondeu
    /\ Len(listagem[1].arquivos) >= 4
    /\ Cardinality({c \in DOMAIN bucket : SubSeq(c, 1, 8) = "2025-12/"}) >= 7
    /\ "2025-12/df_final_20251201_000100.xlsx" \in DOMAIN bucket
    /\ "2025-12/df_final_20251130_235959.xlsx" \in DOMAIN bucket
    /\ listagem[1].mais_recente = "2025-12/df_final_20251210_000000.xlsx"

(***************************************************************************)
(* Claims about the dashboard                                              *)
(***************************************************************************)

\* the positions of the rows of a table that are of one advisor
PosicoesDe(tabela, a) == {i \in 1..Len(tabela) : tabela[i].assessor = a}

RECURSIVE SomaEm(_, _)
\* the sum of the amounts of the ledger at the positions of I
SomaEm(ledger, I) ==
    IF I = {} THEN 0
    ELSE LET i == CHOOSE j \in I : TRUE
         IN  ledger[i].valor + SomaEm(ledger, I \ {i})

\* the advisors of the ledger
AssessoresDoLedger == {painel.df_juntar[i].assessor : i \in 1..Len(painel.df_juntar)}

\* the greatest of the totals of df_final
MaiorTotal ==
    CHOOSE m \in Elementos(ValorTotalAssessor(painel.df_final)) :
        \A t \in Elementos(ValorTotalAssessor(painel.df_final)) : t <= m

\* C6: in every context that reaches render_template, from processar and from
\* visualizar_antigo, max_total is the formatted maximum of the column
\* "Valor Total Assessor" of a df_final that has the column and a row, and
\* the key max_total_val is gone.
C6_MaxTotalEhOMaximo ==
    (painel.pc = "pronto" /\ painel.tem_coluna /\ painel.df_final # <<>>) =>
        /\ \E sobe \in BOOLEAN :
              painel.contexto.max_total = brl([num |-> MaiorTotal, den |-> 1], sobe)
        /\ "max_total_val" \notin DOMAIN painel.contexto

\* C6 witness: visualizar_antigo has rendered a df_final of two advisors
\* whose totals differ, so that the formatted mean is not the formatted
\* maximum, and the maximum is 1500.004 before the rounding.
C6_Witness ==
    /\ painel.pc = "pronto"
    /\ painel.rota = "visualizar_antigo"
    /\ painel.tem_coluna
    /\ Len(painel.df_final) = 2
    /\ painel.df_final[1].total # painel.df_final[2].total
    /\ painel.contexto.max_total # painel.contexto.media_total
    /\ painel.contexto.max_total = "R$ 1.500,00"

C8_SomaArredondadaUmaVez ==
    (painel.pc = "pronto" /\ painel.rota = "processar") =>
        painel.contexto.soma_total
            = brl([num |-> Round2(SomaEm(painel.df_juntar, 1..Len(painel.df_juntar))),
                   den |-> 1], FALSE)

(***************************************************************************)
(* Claims about what the runs leave behind                                 *)
(***************************************************************************)

\* no request is being served
TodosParados == \A p \in PEDIDOS : pedidos[p].pc \in {"inicio", "fim"}

\* the path is <7 characters>/df_final_<15 characters>.xlsx
EhCaminhoDeDfFinal(c) ==
    /\ Len(c) = 37
    /\ SubSeq(c, 8, 17) = "/df_final_"
    /\ FormaTimestamp(SubSeq(c, 18, 32))
    /\ SubSeq(c, 33, 37) = ".xlsx"

\* the twelve paths of the set of a df_final object
ConjuntoDe(c) ==
    {SubSeq(c, 1, 8) \o b \o "_" \o SubSeq(c, 18, 32) \o ".xlsx" : b \in BASES}

\* C11: when no run is in progress, every df_final object of the store has
\* its df_juntar and its ten sources of the same competence and timestamp in
\* the store too, also after runs in which an upload raised part-way.
C11_ConjuntosCompletos ==
    TodosParados =>
        \A c \in DOMAIN bucket :
            EhCaminhoDeDfFinal(c) => ConjuntoDe(c) \subseteq DOMAIN bucket

\* the local output files that exist
Locais == {OUTPUT_FILES[i].arquivo : i \in 1..Len(OUTPUT_FILES)} \cap DOMAIN outputs

\* C12: outside VERCEL, once every request has finished, the twelve local
\* output files all hold the data of one and the same run.
C12_LocaisDeUmaSoExecucao ==
    (~vercel /\ TodosParados) =>
        \A a, b \in Locais : outputs[a].de = outputs[b].de

====
